---------------------------- MODULE Spec2Model ----------------------------
(***************************************************************************)
(* The feed-to-channel pipeline of the two programs of the repository:     *)
(*   bot.py              one check_feeds run per process start             *)
(*   my_rss_telegram.py  check_feeds cycles driven by auto_check_scheduler *)
(* A behaviour runs one of the two programs (prog).  The state holds       *)
(* dates.json (file), the clock (now), and the locals of check_feeds.      *)
(* Fetches and sends are external calls; their outcomes are chosen by the  *)
(* environment.  One tick of the clock is MAX_HOURS_BACK hours.            *)
(***************************************************************************)
EXTENDS Integers, Sequences, FiniteSets, TLC

VARIABLES
    prog,         \* "bot" or "mrt": the program this behaviour runs
    file,         \* dates.json: source -> stored record (isoformat strings)
    now,          \* the clock, datetime.now(timezone.utc)
    pc,           \* position of the process inside check_feeds
    dates,        \* check_feeds: dates (the dict loaded from dates.json)
    i,            \* check_feeds: index of feed_url in RSS_FEEDS
    last_date,    \* check_feeds: last_date of the current source (None = 0)
    error_count,  \* my_rss_telegram.check_feeds: error_count of the source
    feed,         \* check_feeds: feed.entries of the current source
    new_entries,  \* check_feeds: new_entries, (entry, pub_date) pairs
    k,            \* check_feeds: index of the pair of new_entries in hand
    attempts,     \* history: the sends tried for the current source
    world,        \* environment: what each source serves, when it is steady
    steady,       \* environment: TRUE when the feeds never change
    watch,        \* history: the source that is watched
    track,        \* history: what is recorded for the watched source
    delivered,    \* history: link -> date of the entry delivered, for watch
    lastCommit,   \* history: last cursor written for watch, and its link
    strikes,      \* history: failed cycles in a row of watch, and its removal
    is_checking,  \* my_rss_telegram: the global is_checking
    other,        \* my_rss_telegram: position of a second caller of check_feeds
    unsaved       \* history: date of the item of watch whose write failed

vars == <<prog, file, now, pc, dates, i, last_date, error_count, feed,
          new_entries, k, attempts, world, steady, watch, track, delivered,
          lastCommit, strikes, is_checking, other, unsaved>>

-----------------------------------------------------------------------------
(* Bounds of the model *)
MaxLen == 2        \* entries in one fetched feed
MaxTs == 2         \* parsed publication dates are 1..MaxTs
MaxLink == 2       \* entry links are 1..MaxLink
MaxNow == 2        \* the clock runs over 1..MaxNow

(* Program constants *)
MAX_HOURS_BACK == 4
ERROR_LIMIT == 3

RSS_FEEDS == <<1, 2>>
Feeds == 1 .. Len(RSS_FEEDS)

None == 0          \* Python None for a date, and a missing attribute
TextOnly == -1     \* a date given as text only, with no parsed form

\* An entry of a feed: link is entry.link (None when link or title is
\* missing), ts is the parsed date published_parsed / updated_parsed, or
\* TextOnly, or None when the entry carries no date.
Entry == [link : 0 .. MaxLink, ts : TextOnly .. MaxTs]

Range(s) == {s[n] : n \in DOMAIN s}
Max(S) == CHOOSE x \in S : \A y \in S : y <= x

\* The entry lists a fetch can return: no entry twice, no link twice.
FeedLists ==
    {s \in UNION {[1 .. n -> Entry] : n \in 0 .. MaxLen} :
        \A a, b \in DOMAIN s :
            a # b => /\ s[a] # s[b]
                     /\ (s[a].link # None => s[a].link # s[b].link)}

-----------------------------------------------------------------------------
(* datetime <-> dates.json *)
isoformat(t) == [iso |-> t]
fromisoformat(s) == s.iso

\* dates.json after open(..., 'w') and before json.dump has finished: empty
\* or cut short, no JSON document
Torn == [u \in {None} |-> "torn"]

\* timedelta(hours = h), in ticks of MAX_HOURS_BACK hours
timedelta(h) == h \div MAX_HOURS_BACK

FeedUrl == RSS_FEEDS[i]


\* A Python dict as a function: d[key] = v, del d[key]
Put(d, key, v) == [u \in DOMAIN d \cup {key} |-> IF u = key THEN v ELSE d[u]]
Del(d, key) == [u \in DOMAIN d \ {key} |-> d[u]]

\* (entry, pub_date), an element of new_entries
Pair(entry, pub_date) == [entry |-> entry, pub_date |-> pub_date]

\* list.sort(key=lambda x: x[1]): ascending by pub_date, stable
RECURSIVE InsertByDate(_, _)
InsertByDate(x, s) ==
    IF s = <<>> \/ s[Len(s)].pub_date <= x.pub_date
    THEN Append(s, x)
    ELSE Append(InsertByDate(x, SubSeq(s, 1, Len(s) - 1)), s[Len(s)])

\* the list as it was fetched
SortByDate_asFetched(s) == s

RECURSIVE SortByDate(_)
SortByDate(s) ==
    IF s = <<>> THEN <<>>
    ELSE InsertByDate(s[Len(s)], SortByDate(SubSeq(s, 1, Len(s) - 1)))

-----------------------------------------------------------------------------
(* my_rss_telegram.py *)

\* json.JSONDecodeError is caught: load_dates returns {}
mrt_load_dates(f) ==
    IF f = Torn THEN <<>>
    ELSE [u \in DOMAIN f |-> [f[u] EXCEPT !.last_date = fromisoformat(@)]]

mrt_save_dates(d) ==
    [u \in DOMAIN d |-> [last_date |-> isoformat(d[u].last_date),
                         error_count |-> d[u].error_count]]

\* A parsed date of a realistic year, or a text that looks like a date
has_valid_date(entry) == entry.ts # None

\* hasattr(entry, 'published_parsed') or hasattr(entry, 'updated_parsed')
has_parsed(entry) == entry.ts >= 1

\* datetime(*entry.published_parsed[:6], tzinfo=timezone.utc), of the
\* updated_parsed, else datetime.now(timezone.utc)
mrt_pub_date(entry, t) == IF has_parsed(entry) THEN entry.ts ELSE t

\* every entry, whatever the cursor
mrt_is_new_any(entry, ld) == has_valid_date(entry) /\ has_parsed(entry)

\* entries dated as the cursor too
mrt_is_new_ge(entry, ld) ==
    has_valid_date(entry) /\ has_parsed(entry) /\ entry.ts >= ld

mrt_is_new(entry, ld) ==
    has_valid_date(entry) /\ has_parsed(entry) /\ entry.ts > ld

\* new_entries of a tracked source, before the sort
mrt_collect(entries, ld) ==
    LET Keep(e) == mrt_is_new(e, ld)
        kept == SelectSeq(entries, Keep)
    IN  [n \in DOMAIN kept |-> Pair(kept[n], kept[n].ts)]

mrt_new_entries(entries, ld) == SortByDate(mrt_collect(entries, ld))

\* The texts of the exceptions the loop body can raise
ErrorTexts == {"object has no attribute"}

handle_request_error(error_str) ==
    IF error_str \in {"429", "too many"} THEN "skip"
    ELSE IF error_str \in {"500", "502", "503", "504"} THEN "skip"
    ELSE "error"

\* the record is kept whatever the count
mrt_after_failed_fetch_kept(d, f, ld, ec, t) ==
    Put(d, f, [last_date |-> IF ld # None THEN ld ELSE t, error_count |-> ec])

\* dates after a failed fetch of source f (feed is None)
mrt_after_failed_fetch(d, f, ld, ec, t) ==
    LET d1 == Put(d, f, [last_date |-> IF ld # None THEN ld ELSE t,
                         error_count |-> ec])
    IN  IF ec >= ERROR_LIMIT THEN Del(d1, f) ELSE d1

\* dates after the except clause counted an error for source f
mrt_after_error(d, f, ec, t) ==
    LET d1 == IF f \in DOMAIN d
              THEN [d EXCEPT ![f].error_count = ec]
              ELSE Put(d, f, [last_date |-> t, error_count |-> ec])
    IN  IF ec >= ERROR_LIMIT THEN Del(d1, f) ELSE d1

\* dates is made anew with the record of the source alone
mrt_commit_alone(d, f, pub_date) ==
    Put(<<>>, f, [last_date |-> pub_date, error_count |-> 0])

\* dates[feed_url] after a successful send
mrt_commit(d, f, pub_date) ==
    Put(d, f, [last_date |-> pub_date, error_count |-> 0])

-----------------------------------------------------------------------------
(* bot.py *)

bot_load_dates(f) ==
    [u \in DOMAIN f |-> [f[u] EXCEPT !.last_date = fromisoformat(@)]]

bot_save_dates(d) ==
    [u \in DOMAIN d |-> [last_date |-> isoformat(d[u].last_date)]]

get_entry_date(entry, t) == IF entry.ts >= 1 THEN entry.ts ELSE t

bot_threshold(ld, t) ==
    IF ld = None THEN t - timedelta(MAX_HOURS_BACK) ELSE ld

\* entries dated as the threshold too
bot_is_new_ge(entry_date, threshold_date) == entry_date >= threshold_date

bot_is_new(entry_date, threshold_date) == entry_date > threshold_date

bot_collect(entries, threshold_date, t) ==
    LET Keep(e) == bot_is_new(get_entry_date(e, t), threshold_date)
        kept == SelectSeq(entries, Keep)
    IN  [n \in DOMAIN kept |-> Pair(kept[n], get_entry_date(kept[n], t))]

bot_new_entries(entries, threshold_date, t) ==
    SortByDate(bot_collect(entries, threshold_date, t))

bot_commit(d, f, pub_date) == Put(d, f, [last_date |-> pub_date])

-----------------------------------------------------------------------------
(* State *)

\* The process has not started check_feeds; there is no dates.json yet.
Start ==
    /\ file = <<>>
    /\ now = 1
    /\ pc = "idle"
    /\ dates = <<>>
    /\ i = 0
    /\ last_date = None
    /\ error_count = 0
    /\ feed = <<>>
    /\ new_entries = <<>>
    /\ k = 0
    /\ attempts = <<>>
    /\ delivered = <<>>
    /\ lastCommit = [ts |-> None, link |-> None]
    /\ strikes = [n |-> 0, out |-> FALSE]
    /\ is_checking = FALSE
    /\ other = "out"
    /\ unsaved = None

\* Feeds that may change between any two fetches
AnyFeeds ==
    /\ steady = FALSE
    /\ world = <<>>

Init ==
    /\ Start
    /\ prog \in {"bot", "mrt"}
    /\ AnyFeeds
    /\ watch = 1
    /\ track = {}

env == <<world, steady, watch, track>>

\* What a fetch of source f can return when the request succeeds: the one
\* list of a steady feed, else any list (any of world[f] when the behaviour
\* is about feeds of one kind)
Served(f) ==
    IF steady THEN {world[f]}
    ELSE IF f \in DOMAIN world THEN world[f]
    ELSE FeedLists

\* The locals of a check_feeds call that has returned
Returned ==
    /\ pc' = "idle"
    /\ is_checking' = FALSE
    /\ dates' = <<>>
    /\ i' = 0
    /\ last_date' = None
    /\ error_count' = 0
    /\ feed' = <<>>
    /\ new_entries' = <<>>
    /\ k' = 0
    /\ attempts' = <<>>

\* The loop takes the next feed_url.  What the body left in its locals is
\* dead (each is assigned again before it is read), so it is dropped here.
NextSource(loop) ==
    /\ pc' = loop
    /\ i' = i + 1
    /\ last_date' = None
    /\ error_count' = 0
    /\ feed' = <<>>
    /\ new_entries' = <<>>
    /\ k' = 0
    /\ attempts' = <<>>

Entry1 == new_entries[k].entry
PubDate == new_entries[k].pub_date
InLoop(at) == pc = at /\ i <= Len(RSS_FEEDS)
InItems(at) == pc = at /\ k <= Len(new_entries)

\* history: the cursor dates.json holds for the watched source after a write,
\* and the link of the entry it was committed for (None when there is none)
Noted(f2, link) ==
    IF "cursor" \in track
    THEN [ts   |-> IF watch \in DOMAIN f2
                   THEN fromisoformat(f2[watch].last_date) ELSE lastCommit.ts,
          link |-> IF FeedUrl = watch THEN link ELSE lastCommit.link]
    ELSE lastCommit

\* response.status_code of the sink: 200, or one of these
FailCodes == {429, 500}

\* history: the send of the entry in hand was answered with this status
Tried(status) ==
    Append(attempts, [entry |-> Entry1, pub_date |-> PubDate,
                      ok |-> status = 200, status |-> status])

Delivered ==
    IF "delivered" \in track /\ FeedUrl = watch
    THEN Put(delivered, Entry1.link, Entry1.ts)
    ELSE delivered

\* history: is the cycle of the current source counted for watch
Counted == "strikes" \in track /\ FeedUrl = watch

\* history: one more failed cycle in a row (a failed fetch or a counted
\* exception in the loop of check_feeds); the third one is a removal
Struck ==
    IF ~Counted THEN strikes
    ELSE IF strikes.n = 2 THEN [n |-> 0, out |-> TRUE]
    ELSE [strikes EXCEPT !.n = @ + 1]

\* history: the row of failed cycles is over
Cleared == IF Counted THEN [strikes EXCEPT !.n = 0] ELSE strikes

\* The clock moves on.
Tick ==
    /\ now < MaxNow
    /\ now' = now + 1
    /\ UNCHANGED <<prog, file, pc, dates, i, last_date, error_count, feed,
                   new_entries, k, attempts, env, is_checking, other, unsaved, strikes, delivered, lastCommit>>

-----------------------------------------------------------------------------
(* my_rss_telegram.py: check_feeds *)

\* check_feeds from is_checking = True to the loop: load_dates, first run
\* or not
mrt_Enter ==
    /\ is_checking' = TRUE
    /\ LET d == mrt_load_dates(file)
       IN  IF DOMAIN d = {}
           THEN pc' = "init" /\ dates' = <<>>
           ELSE pc' = "loop" /\ dates' = d
    /\ i' = 1
    /\ unsaved' = None
    /\ UNCHANGED <<prog, file, now, last_date, error_count, feed,
                   new_entries, k, attempts, env, other, strikes, delivered,
                   lastCommit>>

\* check_feeds up to the loop, called by the scheduler thread alone: the
\* guard finds is_checking False
mrt_check_feeds ==
    /\ prog = "mrt"
    /\ pc = "idle"
    /\ ~is_checking
    /\ mrt_Enter

\* initialize_first_run: parse_feed_with_fallback returned None
init_FetchFailed ==
    /\ prog = "mrt"
    /\ InLoop("init")
    /\ NextSource("init")
    /\ UNCHANGED <<prog, file, now, dates, env, is_checking, other, unsaved, strikes, delivered, lastCommit>>

\* initialize_first_run: empty feed, or a first entry without a valid date
init_Unusable ==
    /\ prog = "mrt"
    /\ InLoop("init")
    /\ \E s \in Served(FeedUrl) :
        IF s = <<>> THEN TRUE ELSE ~has_valid_date(s[1])
    /\ NextSource("init")
    /\ UNCHANGED <<prog, file, now, dates, env, is_checking, other, unsaved, strikes, delivered, lastCommit>>

\* initialize_first_run: the newest entry (entries[0]) is taken
init_Fetch ==
    /\ prog = "mrt"
    /\ InLoop("init")
    /\ \E s \in Served(FeedUrl) :
        /\ s # <<>> /\ has_valid_date(s[1])
        /\ feed' = s
        /\ new_entries' = <<Pair(s[1], mrt_pub_date(s[1], now))>>
    /\ k' = 1
    /\ attempts' = <<>>
    /\ pc' = "init_items"
    /\ UNCHANGED <<prog, file, now, dates, i, last_date, error_count, env, is_checking, other, unsaved, strikes,
                   delivered, lastCommit>>

\* initialize_first_run: entry.title or entry.link is missing
init_Raise ==
    /\ prog = "mrt"
    /\ InItems("init_items")
    /\ Entry1.link = None
    /\ NextSource("init")
    /\ UNCHANGED <<prog, file, now, dates, env, is_checking, other, unsaved, strikes, delivered, lastCommit>>

init_SendOk ==
    /\ prog = "mrt"
    /\ InItems("init_items")
    /\ Entry1.link # None
    /\ attempts' = Tried(200)
    /\ delivered' = Delivered
    /\ pc' = "init_sent"
    /\ UNCHANGED <<prog, file, now, dates, i, last_date, error_count, feed,
                   new_entries, k, env, is_checking, other, unsaved, strikes, lastCommit>>

init_SendFailed ==
    /\ prog = "mrt"
    /\ InItems("init_items")
    /\ Entry1.link # None
    /\ NextSource("init")
    /\ UNCHANGED <<prog, file, now, dates, env, is_checking, other, unsaved, strikes, delivered, lastCommit>>

\* initialize_first_run: dates[feed_url] = ..., save_dates(dates)
init_Commit ==
    /\ prog = "mrt"
    /\ pc = "init_sent"
    /\ dates' = mrt_commit(dates, FeedUrl, PubDate)
    /\ file' = mrt_save_dates(dates')
    /\ lastCommit' = Noted(file', Entry1.link)
    /\ NextSource("init")
    /\ UNCHANGED <<prog, now, env, is_checking, other, unsaved, strikes, delivered>>

\* initialize_first_run returns, and check_feeds without is_checking = False
init_Done_flag_kept ==
    /\ prog = "mrt"
    /\ pc = "init"
    /\ i > Len(RSS_FEEDS)
    /\ pc' = "idle"
    /\ dates' = <<>>
    /\ i' = 0
    /\ UNCHANGED <<prog, file, now, last_date, error_count, feed,
                   new_entries, k, attempts, env, is_checking, other, unsaved,
                   strikes, delivered, lastCommit>>

\* initialize_first_run returns, and check_feeds with it
init_Done ==
    /\ prog = "mrt"
    /\ pc = "init"
    /\ i > Len(RSS_FEEDS)
    /\ Returned
    /\ UNCHANGED <<prog, file, now, env, other, unsaved, strikes, delivered, lastCommit>>

\* The state of the source as the loop body reads it
Ld == IF FeedUrl \in DOMAIN dates THEN dates[FeedUrl].last_date ELSE None
Ec == IF FeedUrl \in DOMAIN dates THEN dates[FeedUrl].error_count ELSE 0

\* parse_feed_with_fallback returned None
mrt_FetchFailed ==
    /\ prog = "mrt"
    /\ InLoop("loop")
    /\ dates' = mrt_after_failed_fetch(dates, FeedUrl, Ld, Ec + 1, now)
    /\ file' = mrt_save_dates(dates')
    /\ lastCommit' = Noted(file', IF Ld = None THEN None ELSE lastCommit.link)
    /\ strikes' = Struck
    /\ NextSource("loop")
    /\ UNCHANGED <<prog, now, env, is_checking, other, unsaved, delivered>>

\* The record of a source with an unusable feed is dropped.
mrt_Drop ==
    /\ dates' = Del(dates, FeedUrl)
    /\ file' = IF FeedUrl \in DOMAIN dates THEN mrt_save_dates(dates') ELSE file
    /\ strikes' = Cleared
    /\ NextSource("loop")
    /\ UNCHANGED <<prog, now, env, is_checking, other, unsaved, delivered, lastCommit>>

\* not feed.entries
mrt_FeedEmpty ==
    /\ prog = "mrt"
    /\ InLoop("loop")
    /\ <<>> \in Served(FeedUrl)
    /\ mrt_Drop

\* not has_valid_date(feed.entries[0])
mrt_NoValidDate ==
    /\ prog = "mrt"
    /\ InLoop("loop")
    /\ \E s \in Served(FeedUrl) : s # <<>> /\ ~has_valid_date(s[1])
    /\ mrt_Drop

\* last_date is None: the source is new or was removed; entries[0] is taken
mrt_NewSource ==
    /\ prog = "mrt"
    /\ InLoop("loop")
    /\ Ld = None
    /\ \E s \in Served(FeedUrl) :
        /\ s # <<>> /\ has_valid_date(s[1])
        /\ feed' = s
        /\ new_entries' = <<Pair(s[1], mrt_pub_date(s[1], now))>>
    /\ last_date' = Ld
    /\ error_count' = Ec
    /\ k' = 1
    /\ attempts' = <<>>
    /\ pc' = "items"
    /\ UNCHANGED <<prog, file, now, dates, i, env, is_checking, other, unsaved, strikes, delivered, lastCommit>>

\* the source is tracked: every entry newer than last_date, oldest first
mrt_Tracked ==
    /\ prog = "mrt"
    /\ InLoop("loop")
    /\ Ld # None
    /\ \E s \in Served(FeedUrl) :
        /\ s # <<>> /\ has_valid_date(s[1])
        /\ feed' = s
        /\ new_entries' = mrt_new_entries(s, Ld)
    /\ last_date' = Ld
    /\ error_count' = Ec
    /\ k' = 1
    /\ attempts' = <<>>
    /\ pc' = "items"
    /\ UNCHANGED <<prog, file, now, dates, i, env, is_checking, other, unsaved, strikes, delivered, lastCommit>>

\* the exception is not caught in the loop: it ends check_feeds
mrt_Raise_uncaught ==
    /\ prog = "mrt"
    /\ InItems("items")
    /\ Entry1.link = None
    /\ Returned
    /\ UNCHANGED <<prog, file, now, env, other, unsaved, strikes, delivered,
                   lastCommit>>

\* entry.title or entry.link is missing: the except clause of the loop body
mrt_Raise ==
    /\ prog = "mrt"
    /\ InItems("items")
    /\ Entry1.link = None
    /\ \E error_str \in ErrorTexts :
        IF handle_request_error(error_str) = "skip"
        THEN UNCHANGED <<dates, file, lastCommit, strikes>>
        ELSE /\ dates' = mrt_after_error(dates, FeedUrl, error_count + 1, now)
             /\ strikes' = Struck
             /\ file' = mrt_save_dates(dates')
             /\ lastCommit' = Noted(file', IF FeedUrl \in DOMAIN dates
                                           THEN lastCommit.link ELSE None)
    /\ NextSource("loop")
    /\ UNCHANGED <<prog, now, env, is_checking, other, unsaved, delivered>>

\* send_to_telegram returned True
mrt_SendOk ==
    /\ prog = "mrt"
    /\ InItems("items")
    /\ Entry1.link # None
    /\ attempts' = Tried(200)
    /\ delivered' = Delivered
    /\ pc' = "sent"
    /\ UNCHANGED <<prog, file, now, dates, i, last_date, error_count, feed,
                   new_entries, k, env, is_checking, other, unsaved, strikes, lastCommit>>

\* send_to_telegram returned False: the for loop goes on with the next pair
mrt_SendFailed ==
    /\ prog = "mrt"
    /\ InItems("items")
    /\ Entry1.link # None
    /\ \E status \in FailCodes : attempts' = Tried(status)
    /\ k' = k + 1
    /\ UNCHANGED <<prog, file, now, pc, dates, i, last_date, error_count,
                   feed, new_entries, env, is_checking, other, unsaved, strikes, delivered, lastCommit>>

\* dates[feed_url] = {'last_date': pub_date, 'error_count': 0}; save_dates
mrt_Commit ==
    /\ prog = "mrt"
    /\ pc = "sent"
    /\ dates' = mrt_commit(dates, FeedUrl, PubDate)
    /\ file' = mrt_save_dates(dates')
    /\ lastCommit' = Noted(file', Entry1.link)
    /\ k' = k + 1
    /\ pc' = "items"
    /\ UNCHANGED <<prog, now, i, last_date, error_count, feed, new_entries,
                   attempts, env, is_checking, other, unsaved, strikes, delivered>>

\* the body ends: the error counter of the source is reset
mrt_SourceDone ==
    /\ prog = "mrt"
    /\ pc = "items"
    /\ k > Len(new_entries)
    /\ IF FeedUrl \in DOMAIN dates
       THEN /\ dates' = [dates EXCEPT ![FeedUrl].error_count = 0]
            /\ file' = mrt_save_dates(dates')
       ELSE UNCHANGED <<dates, file>>
    /\ strikes' = Cleared
    /\ NextSource("loop")
    /\ UNCHANGED <<prog, now, env, is_checking, other, unsaved, delivered, lastCommit>>

\* after the loop: save_dates(dates), return
mrt_CycleDone ==
    /\ prog = "mrt"
    /\ pc = "loop"
    /\ i > Len(RSS_FEEDS)
    /\ file' = mrt_save_dates(dates)
    /\ Returned
    /\ UNCHANGED <<prog, now, env, other, unsaved, strikes, delivered, lastCommit>>

\* dates.json after a save_dates call that raised inside (the exception is
\* logged and dropped): open failed and the file is as it was, or json.dump
\* failed and the file is cut
FailedWrite == {file, Torn}

\* history: the write that follows the send of an item of watch has failed
Unsaved ==
    IF "unsaved" \in track /\ FeedUrl = watch THEN PubDate ELSE unsaved

\* dates[feed_url] = ...; save_dates fails
mrt_CommitUnsaved ==
    /\ prog = "mrt"
    /\ pc = "sent"
    /\ dates' = mrt_commit(dates, FeedUrl, PubDate)
    /\ file' \in FailedWrite
    /\ unsaved' = Unsaved
    /\ k' = k + 1
    /\ pc' = "items"
    /\ UNCHANGED <<prog, now, i, last_date, error_count, feed, new_entries,
                   attempts, env, is_checking, other, strikes, delivered,
                   lastCommit>>

\* the body ends: the error counter is reset, save_dates fails
mrt_SourceDoneUnsaved ==
    /\ prog = "mrt"
    /\ pc = "items"
    /\ k > Len(new_entries)
    /\ FeedUrl \in DOMAIN dates
    /\ dates' = [dates EXCEPT ![FeedUrl].error_count = 0]
    /\ file' \in FailedWrite
    /\ strikes' = Cleared
    /\ NextSource("loop")
    /\ UNCHANGED <<prog, now, env, is_checking, other, unsaved, delivered,
                   lastCommit>>

\* after the loop: save_dates fails, return
mrt_CycleDoneUnsaved ==
    /\ prog = "mrt"
    /\ pc = "loop"
    /\ i > Len(RSS_FEEDS)
    /\ file' \in FailedWrite
    /\ Returned
    /\ UNCHANGED <<prog, now, env, other, unsaved, strikes, delivered,
                   lastCommit>>

-----------------------------------------------------------------------------
(* my_rss_telegram.py: check_feeds called by two threads.  The test of        *)
(* is_checking and its assignment are two steps of a thread.  The first      *)
(* caller runs the body above; of the second caller the guard and the        *)
(* finally clause are followed, its body runs the same code.                 *)

\* if is_checking: the first caller reads the flag
mrt_Test ==
    /\ prog = "mrt"
    /\ pc = "idle"
    /\ pc' = IF is_checking THEN "refused" ELSE "guard"
    /\ UNCHANGED <<prog, file, now, dates, i, last_date, error_count, feed,
                   new_entries, k, attempts, env, is_checking, other, unsaved,
                   strikes, delivered, lastCommit>>

\* is_checking = True, and on into the body
mrt_Set ==
    /\ prog = "mrt"
    /\ pc = "guard"
    /\ mrt_Enter

\* return 0
mrt_Refused ==
    /\ prog = "mrt"
    /\ pc = "refused"
    /\ pc' = "idle"
    /\ UNCHANGED <<prog, file, now, dates, i, last_date, error_count, feed,
                   new_entries, k, attempts, env, is_checking, other, unsaved,
                   strikes, delivered, lastCommit>>

\* if is_checking: the second caller reads the flag
other_Test ==
    /\ prog = "mrt"
    /\ other = "out"
    /\ other' = IF is_checking THEN "refused" ELSE "guard"
    /\ UNCHANGED <<prog, file, now, pc, dates, i, last_date, error_count,
                   feed, new_entries, k, attempts, world, steady, watch,
                   track, is_checking, unsaved, strikes, delivered,
                   lastCommit>>

\* is_checking = True: the second caller is in the body
other_Set ==
    /\ prog = "mrt"
    /\ other = "guard"
    /\ is_checking' = TRUE
    /\ other' = "in"
    /\ UNCHANGED <<prog, file, now, pc, dates, i, last_date, error_count,
                   feed, new_entries, k, attempts, world, steady, watch,
                   track, unsaved, strikes, delivered, lastCommit>>

\* return 0
other_Refused ==
    /\ prog = "mrt"
    /\ other = "refused"
    /\ other' = "out"
    /\ UNCHANGED <<prog, file, now, pc, dates, i, last_date, error_count,
                   feed, new_entries, k, attempts, world, steady, watch,
                   track, is_checking, unsaved, strikes, delivered,
                   lastCommit>>

\* finally: is_checking = False; the second caller returns
other_Return ==
    /\ prog = "mrt"
    /\ other = "in"
    /\ is_checking' = FALSE
    /\ other' = "out"
    /\ UNCHANGED <<prog, file, now, pc, dates, i, last_date, error_count,
                   feed, new_entries, k, attempts, world, steady, watch,
                   track, unsaved, strikes, delivered, lastCommit>>

-----------------------------------------------------------------------------
(* bot.py: check_feeds *)

\* dates.get(feed_url, {}).get('last_date')
BotLd == IF FeedUrl \in DOMAIN dates THEN dates[FeedUrl].last_date ELSE None

\* check_feeds up to the loop: load_dates
bot_check_feeds ==
    /\ prog = "bot"
    /\ pc = "idle"
    /\ file # Torn
    /\ dates' = bot_load_dates(file)
    /\ pc' = "loop"
    /\ i' = 1
    /\ UNCHANGED <<prog, file, now, last_date, error_count, feed,
                   new_entries, k, attempts, env, is_checking, other, unsaved, strikes, delivered, lastCommit>>

\* parse_feed returned None: the request failed, or the feed has no entries
bot_FetchNone ==
    /\ prog = "bot"
    /\ InLoop("loop")
    /\ NextSource("loop")
    /\ UNCHANGED <<prog, file, now, dates, env, is_checking, other, unsaved, strikes, delivered, lastCommit>>

\* the entries newer than threshold_date, oldest first
bot_Fetch ==
    /\ prog = "bot"
    /\ InLoop("loop")
    /\ \E s \in Served(FeedUrl) :
        /\ s # <<>>
        /\ feed' = s
        /\ new_entries' = bot_new_entries(s, bot_threshold(BotLd, now), now)
    /\ last_date' = BotLd
    /\ k' = 1
    /\ attempts' = <<>>
    /\ pc' = "items"
    /\ UNCHANGED <<prog, file, now, dates, i, error_count, env, is_checking, other, unsaved, strikes, delivered,
                   lastCommit>>

\* if not link: continue
bot_SkipNoLink ==
    /\ prog = "bot"
    /\ InItems("items")
    /\ Entry1.link = None
    /\ k' = k + 1
    /\ UNCHANGED <<prog, file, now, pc, dates, i, last_date, error_count,
                   feed, new_entries, attempts, env, is_checking, other, unsaved, strikes, delivered, lastCommit>>

\* send_to_telegram: the sink answered 200
bot_SendOk ==
    /\ prog = "bot"
    /\ InItems("items")
    /\ Entry1.link # None
    /\ attempts' = Tried(200)
    /\ delivered' = Delivered
    /\ pc' = "delay"
    /\ UNCHANGED <<prog, file, now, dates, i, last_date, error_count, feed,
                   new_entries, k, env, is_checking, other, unsaved, strikes, lastCommit>>

\* send_to_telegram: time.sleep(random.uniform(15, 25)), return True
bot_Delay ==
    /\ prog = "bot"
    /\ pc = "delay"
    /\ pc' = "sent"
    /\ UNCHANGED <<prog, file, now, dates, i, last_date, error_count, feed,
                   new_entries, k, attempts, env, is_checking, other, unsaved, strikes, delivered,
                   lastCommit>>

\* send_to_telegram returned False: break
bot_SendFailed ==
    /\ prog = "bot"
    /\ InItems("items")
    /\ Entry1.link # None
    /\ \E status \in FailCodes : attempts' = Tried(status)
    /\ pc' = "break"
    /\ UNCHANGED <<prog, file, now, dates, i, last_date, error_count, feed,
                   new_entries, k, env, is_checking, other, unsaved, strikes, delivered, lastCommit>>

\* dates[feed_url] = {'last_date': pub_date}; save_dates(dates)
bot_Commit ==
    /\ prog = "bot"
    /\ pc = "sent"
    /\ dates' = bot_commit(dates, FeedUrl, PubDate)
    /\ file' = bot_save_dates(dates')
    /\ lastCommit' = Noted(file', Entry1.link)
    /\ k' = k + 1
    /\ pc' = "items"
    /\ UNCHANGED <<prog, now, i, last_date, error_count, feed, new_entries,
                   attempts, env, is_checking, other, unsaved, strikes, delivered>>

\* the body ends: new_entries is exhausted, or the for loop was left by break
bot_SourceDone ==
    /\ prog = "bot"
    /\ IF pc = "items" THEN k > Len(new_entries) ELSE pc = "break"
    /\ NextSource("loop")
    /\ UNCHANGED <<prog, file, now, dates, env, is_checking, other, unsaved, strikes, delivered, lastCommit>>

\* after the loop: save_dates(dates), return
bot_CycleDone ==
    /\ prog = "bot"
    /\ pc = "loop"
    /\ i > Len(RSS_FEEDS)
    /\ file' = bot_save_dates(dates)
    /\ Returned
    /\ UNCHANGED <<prog, now, env, other, unsaved, strikes, delivered, lastCommit>>

-----------------------------------------------------------------------------
(* The process is killed inside check_feeds; the next start runs it anew. *)
Kill ==
    /\ pc # "idle"
    /\ Returned
    /\ other' = "out"
    /\ UNCHANGED <<prog, file, now, env, unsaved, strikes, delivered, lastCommit>>

\* The process is killed inside save_dates, after open(..., 'w') has cut
\* dates.json and before json.dump has written it.
KillInSave ==
    /\ \/ pc \in {"sent", "init_sent"}
       \/ pc = "loop" /\ i > Len(RSS_FEEDS)
    /\ file' = Torn
    /\ Returned
    /\ other' = "out"
    /\ UNCHANGED <<prog, now, env, unsaved, strikes, delivered, lastCommit>>

\* bot.py: load_dates catches FileNotFoundError only; json.load raises on
\* a torn dates.json and the process ends before check_feeds has done
\* anything.
bot_LoadRaises ==
    /\ prog = "bot"
    /\ pc = "idle"
    /\ file = Torn
    /\ UNCHANGED vars

\* the steps of check_feeds after its entry
mrt_Body ==
    \/ init_FetchFailed \/ init_Unusable \/ init_Fetch \/ init_Raise
    \/ init_SendOk \/ init_SendFailed \/ init_Commit \/ init_Done
    \/ mrt_FetchFailed \/ mrt_FeedEmpty \/ mrt_NoValidDate
    \/ mrt_NewSource \/ mrt_Tracked \/ mrt_Raise
    \/ mrt_SendOk \/ mrt_SendFailed \/ mrt_Commit
    \/ mrt_SourceDone \/ mrt_CycleDone

mrt_Next == mrt_check_feeds \/ mrt_Body

bot_Next ==
    \/ bot_check_feeds
    \/ bot_FetchNone \/ bot_Fetch \/ bot_SkipNoLink
    \/ bot_SendOk \/ bot_Delay \/ bot_SendFailed \/ bot_Commit
    \/ bot_SourceDone \/ bot_CycleDone

Next == Tick \/ mrt_Next \/ bot_Next

Spec == Init /\ [][Next]_vars

\* The process keeps running: a step of check_feeds that can be taken is
\* taken, and the scheduler (or the next start of bot.py) starts cycles.
SpecFair == Init /\ [][Next]_vars /\ WF_vars(mrt_Next \/ bot_Next)

\* The same program, with the cursor written for one source recorded
InitCursor ==
    /\ Start
    /\ prog \in {"bot", "mrt"}
    /\ AnyFeeds
    /\ watch \in Feeds
    /\ track = {"cursor"}

SpecCursor == InitCursor /\ [][Next]_vars

\* ... and with the process killed at any point of check_feeds
NextKill == Next \/ Kill

SpecKill == InitCursor /\ [][NextKill]_vars

\* The same program, with the deliveries of one source recorded
InitDelivered ==
    /\ Start
    /\ prog \in {"bot", "mrt"}
    /\ AnyFeeds
    /\ watch \in Feeds
    /\ track = {"delivered"}

SpecDelivered == InitDelivered /\ [][Next]_vars

\* ... and with the process killed inside save_dates
NextTorn == Next \/ Kill \/ KillInSave \/ bot_LoadRaises

SpecTorn == Init /\ [][NextTorn]_vars

\* my_rss_telegram where every fetch returns entries and every send
\* succeeds, with the process killed at any point; the cursor and the
\* deliveries of one source are recorded.
InitRestart ==
    /\ Start
    /\ prog = "mrt"
    /\ AnyFeeds
    /\ watch \in Feeds
    /\ track = {"cursor", "delivered"}

NextRestart ==
    \/ Tick
    \/ mrt_check_feeds
    \/ init_Fetch \/ init_SendOk \/ init_Commit \/ init_Done
    \/ mrt_NewSource \/ mrt_Tracked
    \/ mrt_SendOk \/ mrt_Commit
    \/ mrt_SourceDone \/ mrt_CycleDone
    \/ Kill \/ KillInSave

SpecRestart == InitRestart /\ [][NextRestart]_vars

\* The same program, with the failed cycles of one source counted
InitStrikes ==
    /\ Start
    /\ prog \in {"bot", "mrt"}
    /\ AnyFeeds
    /\ watch \in Feeds
    /\ track = {"strikes"}

SpecStrikes == InitStrikes /\ [][Next]_vars

\* my_rss_telegram with writes of dates.json that fail; the failed write
\* after a send of one source is recorded
InitDisk ==
    /\ Start
    /\ prog = "mrt"
    /\ AnyFeeds
    /\ watch \in Feeds
    /\ track = {"unsaved"}

NextDisk ==
    \/ Tick
    \/ mrt_Next
    \/ mrt_CommitUnsaved \/ mrt_SourceDoneUnsaved \/ mrt_CycleDoneUnsaved

SpecDisk == InitDisk /\ [][NextDisk]_vars

\* my_rss_telegram with check_feeds called by two threads
InitThreads ==
    /\ Start
    /\ prog = "mrt"
    /\ AnyFeeds
    /\ watch = 1
    /\ track = {}

NextThreads ==
    \/ Tick
    \/ mrt_Test \/ mrt_Set \/ mrt_Refused
    \/ mrt_Body
    \/ other_Test \/ other_Set \/ other_Refused \/ other_Return

SpecThreads == InitThreads /\ [][NextThreads]_vars

\* Non-empty lists whose entries all carry a parsed date
ParsedLists == {s \in FeedLists : s # <<>> /\ \A e \in Range(s) : e.ts >= 1}

\* my_rss_telegram where every fetch returns a non-empty list of entries
\* with parsed dates and every send succeeds; the process keeps running and
\* auto_check_scheduler keeps calling check_feeds.
InitLive ==
    /\ Start
    /\ prog = "mrt"
    /\ steady = FALSE
    /\ world = [f \in Feeds |-> ParsedLists]
    /\ watch = 1
    /\ track = {}

LiveSteps ==
    \/ mrt_check_feeds
    \/ init_Fetch \/ init_Raise \/ init_SendOk \/ init_Commit \/ init_Done
    \/ mrt_NewSource \/ mrt_Tracked \/ mrt_Raise
    \/ mrt_SendOk \/ mrt_Commit
    \/ mrt_SourceDone \/ mrt_CycleDone

NextLive == Tick \/ LiveSteps

SpecLive == InitLive /\ [][NextLive]_vars /\ WF_vars(LiveSteps)

\* bot.py run time and again on feeds that never change: the watched source
\* serves the same entries at every fetch (the other source serves none),
\* and its deliveries are recorded.
InitSteady ==
    /\ Start
    /\ prog = "bot"
    /\ steady = TRUE
    /\ watch \in Feeds
    /\ world \in {w \in [Feeds -> FeedLists] :
                    \A f \in Feeds : f # watch => w[f] = <<>>}
    /\ track = {"delivered"}

NextBot == Tick \/ bot_Next

SpecSteady == InitSteady /\ [][NextBot]_vars

-----------------------------------------------------------------------------
(* Properties *)

\* The cursor dates.json holds for source f (None when it has no record)
Cursor(f) ==
    IF f \in DOMAIN file THEN fromisoformat(file[f].last_date) ELSE None

CursorNext(f) ==
    IF f \in DOMAIN file' THEN fromisoformat(file'[f].last_date) ELSE None

\* The body of the loop is at work on a source
InBody == pc \in {"items", "delay", "sent", "break"}

\* No send attempt of the current source has failed
AllSent == \A a \in DOMAIN attempts : attempts[a].ok

\* C1: my_rss_telegram.check_feeds, source with a cursor: once the send of
\* a new item has failed, no later item of the cycle is sent, and the cursor
\* is not moved to a later item: the failed attempt is the last attempt of
\* the source, and the cursor is the one of the last send before it.
C1_StopAtFailure ==
    (prog = "mrt" /\ InBody /\ last_date # None) =>
        \A a \in DOMAIN attempts :
            ~attempts[a].ok =>
                /\ a = Len(attempts)
                /\ Cursor(FeedUrl) = IF a = 1 THEN last_date
                                     ELSE attempts[a - 1].pub_date

\* C2: bot.check_feeds: when the send of the k-th new item fails, the
\* cursor in dates.json is the one of item k-1 (the one before the cycle
\* when k = 1), and a cycle that fetches the same list finds every item
\* k..n new again.
C2_FailedItemsStayNew ==
    (prog = "bot" /\ pc = "break") =>
        LET again == bot_new_entries(feed,
                         bot_threshold(Cursor(FeedUrl), now), now)
        IN  /\ Cursor(FeedUrl) = IF Len(attempts) > 1
                                 THEN attempts[Len(attempts) - 1].pub_date
                                 ELSE last_date
            /\ \A n \in k .. Len(new_entries) :
                \E m \in DOMAIN again : again[m].entry = new_entries[n].entry

C4_CursorOnlyAfterSend ==
    [][prog = "mrt" =>
            \A f \in Feeds :
                (CursorNext(f) # Cursor(f) /\ f \in DOMAIN file')
                    => /\ pc \in {"sent", "init_sent"}
                       /\ f = FeedUrl
                       /\ CursorNext(f) = Entry1.ts]_vars

\* The entry in hand was delivered before, with the same link and date
SentBefore ==
    /\ Entry1.link \in DOMAIN delivered
    /\ delivered[Entry1.link] = Entry1.ts

\* C5: my_rss_telegram, no kill, every write of dates.json succeeds: no
\* item of a source is sent a second time, whatever the fetches of the
\* cycles return (items, an empty list, a first entry without a valid date,
\* a failure).
C5_NoItemSentTwice ==
    [][(/\ prog = "mrt"
        /\ pc \in {"items", "init_items"}
        /\ pc' \in {"sent", "init_sent"}
        /\ FeedUrl = watch) => ~SentBefore]_vars

\* C6: bot.py, no kill, every write of dates.json succeeds, a feed that
\* never changes: no item is sent a second time over any number of runs,
\* entries without a parsed publication date included.
C6_NoItemSentTwiceSteady ==
    [][(/\ prog = "bot"
        /\ steady
        /\ pc = "items"
        /\ pc' = "delay"
        /\ FeedUrl = watch) => ~SentBefore]_vars

\* The body of the loop has just selected the new entries of the source
Selected == pc = "items" /\ k = 1 /\ attempts = <<>>

\* Every fetched entry carries a parsed publication date
AllDated == \A e \in Range(feed) : e.ts >= 1

\* Every fetched entry carries a link (and a title)
AllLinked == \A e \in Range(feed) : e.link # None

\* C7: both programs, source with a cursor: the entries selected as new
\* are those dated after the cursor, plus those dated as the cursor whose
\* link is not the link of the last delivered item.
C7_SelectedIsReference ==
    (Selected /\ last_date # None /\ FeedUrl = watch /\ AllDated
              /\ AllLinked /\ "cursor" \in track) =>
        {new_entries[n].entry : n \in DOMAIN new_entries}
            = {e \in Range(feed) :
                \/ e.ts > last_date
                \/ e.ts = last_date /\ e.link # lastCommit.link}

\* The body of the loop has ended without a failed send
EndedClean == pc = "items" /\ k > Len(new_entries) /\ AllSent

\* C8: both programs: of two fetched items with the same date, not older
\* than the cursor, and different links, once one has been delivered and
\* the sends of the cycle have succeeded, the other has been delivered too.
C8_BothOfATieDelivered ==
    (EndedClean /\ last_date # None /\ FeedUrl = watch
                /\ "delivered" \in track) =>
        \A a, b \in Range(feed) :
            (/\ a.ts = b.ts /\ a.ts >= last_date
             /\ a.link # None /\ b.link # None /\ a.link # b.link
             /\ a.link \in DOMAIN delivered /\ delivered[a.link] = a.ts)
                => b.link \in DOMAIN delivered

Newer == {e \in Range(feed) : e.ts > last_date}

C10_AtEnd ==
    (EndedClean /\ last_date # None /\ AllDated /\ AllLinked) =>
        /\ {attempts[a].entry : a \in DOMAIN attempts} = Newer
        /\ Len(attempts) = Cardinality(Newer)
        /\ Cursor(FeedUrl) = IF Newer = {} THEN last_date
                             ELSE Max({e.ts : e \in Newer})
        /\ dates[FeedUrl].last_date = Cursor(FeedUrl)

C10_Kept ==
    \A f \in Feeds :
        (\/ i \notin DOMAIN RSS_FEEDS
         \/ f # FeedUrl
         \/ pc = "items" /\ k > Len(new_entries))
            => (f \in DOMAIN file
                    => f \in DOMAIN file' /\ CursorNext(f) = Cursor(f))

Between == pc \in {"idle", "loop"}

\* The error_count dates.json holds for source f
Errors(f) == file[f].error_count

C11_Counted ==
    (prog = "mrt" /\ "strikes" \in track /\ Between) =>
        IF strikes.n > 0
        THEN watch \in DOMAIN file /\ Errors(watch) = strikes.n
        ELSE watch \in DOMAIN file => Errors(watch) = 0

C11_Reset ==
    (prog = "mrt" /\ pc = "items" /\ pc' = "loop" /\ k > Len(new_entries)
                  /\ FeedUrl \in DOMAIN file)
        => (FeedUrl \in DOMAIN file' /\ file'[FeedUrl].error_count = 0)

\* C11: my_rss_telegram.check_feeds: after one or two failed cycles in a
\* row the record of the source is in dates.json with that error_count;
\* the third failed cycle in a row removes the record; a successful cycle
\* keeps the record and writes error_count 0.
C11_ThirdFailureRemoves == []C11_Counted /\ [][C11_Reset]_vars

\* the third failed cycle in a row has removed the record
C11_Witness ==
    /\ prog = "mrt"
    /\ Between
    /\ strikes.out
    /\ strikes.n = 0
    /\ watch \notin DOMAIN file

\* C12: my_rss_telegram.check_feeds: the record of a source is removed
\* only in a cycle where its failure count reaches 3; a cycle where the
\* fetch returns no entry, or a first entry without a valid date, leaves
\* the record in place.
C12_RemovedOnlyAtThree ==
    [][prog = "mrt" =>
            \A f \in Feeds :
                (f \in DOMAIN file /\ f \notin DOMAIN file')
                    => \/ pc = "loop" /\ Errors(f) + 1 >= 3
                       \/ pc = "items" /\ error_count + 1 >= 3]_vars

\* C13: my_rss_telegram: once the record of a source has been removed after
\* three failed cycles, the source is not fetched and none of its items is
\* sent in any later cycle.
C13_RemovedStaysOut ==
    (prog = "mrt" /\ strikes.out
                  /\ pc \in {"items", "sent", "init_items", "init_sent"})
        => FeedUrl # watch

\* C14: my_rss_telegram.check_feeds: a cycle of a source in which a send
\* has failed ends with the failure count of the source one higher than
\* at its start (the record removed when that makes 3).
C14_FailedSendCounted ==
    [][(prog = "mrt" /\ pc = "items" /\ pc' = "loop"
                     /\ k > Len(new_entries) /\ ~AllSent
                     /\ last_date # None)
            => IF error_count + 1 >= 3
               THEN FeedUrl \notin DOMAIN file'
               ELSE /\ FeedUrl \in DOMAIN file'
                    /\ file'[FeedUrl].error_count = error_count + 1]_vars

\* C15: both programs: whenever the process is killed during save_dates,
\* dates.json holds the previous records or the new ones, never a text
\* that cannot be parsed.
C15_NeverTorn == file # Torn

\* C16: my_rss_telegram, killed at any point of a cycle and started again,
\* fetches and sends succeeding: an item is delivered a second time only
\* if its send was in flight at the kill, never an item whose cursor had
\* been written to dates.json.
C16_OnlyInFlightTwice ==
    [][(/\ prog = "mrt"
        /\ pc \in {"items", "init_items"}
        /\ pc' \in {"sent", "init_sent"}
        /\ FeedUrl = watch
        /\ SentBefore)
            => ~(/\ Entry1.link = lastCommit.link
                 /\ Entry1.ts = lastCommit.ts)]_vars

\* The newest parsed date of the fetched entries
Newest == Max({e.ts : e \in Range(feed)})

\* C17: bot.check_feeds: first observation of a source (no cursor), every
\* fetched item older than the window: nothing is sent, and the cursor of
\* the source is created with the date of the newest fetched item.
C17_ColdStartCursor ==
    (prog = "bot" /\ pc = "items" /\ last_date = None /\ AllDated
                  /\ AllLinked /\ new_entries = <<>>) =>
        /\ attempts = <<>>
        /\ \/ Cursor(FeedUrl) = Newest
           \/ FeedUrl \in DOMAIN dates /\ dates[FeedUrl].last_date = Newest

\* C18: my_rss_telegram: source without a cursor (first run, or no
\* record): at most one item is sent in the cycle, the fetched item with
\* the newest date whatever the order of the list, and after a successful
\* send the cursor is that date.
C18_NewestOfNewSource ==
    (prog = "mrt" /\ pc \in {"items", "sent", "init_items", "init_sent"}
                  /\ last_date = None /\ AllDated /\ AllLinked) =>
        /\ Len(attempts) <= 1
        /\ Len(new_entries) = 1
        /\ new_entries[1].entry.ts = Newest
        /\ (pc = "items" /\ k = 2 /\ attempts # <<>> /\ AllSent)
                => Cursor(FeedUrl) = Newest

\* C19: bot.check_feeds: no sleep lies between the success answer of the
\* sink and the write of the cursor of the item: whenever the process
\* sleeps after a successful send, dates.json holds the date of that item.
C19_CommitBeforeDelay ==
    (prog = "bot" /\ pc = "delay") => Cursor(FeedUrl) = PubDate

\* C20: both programs: after the sink has answered a send with 429, no
\* other send is attempted before a pause; inside the body of one source
\* (where no sleep follows a failed send) the throttled attempt is the
\* last one.
C20_NoSendAfterThrottle ==
    \A a \in DOMAIN attempts :
        attempts[a].status = 429 => a = Len(attempts)

\* The number of sends of the current source that the sink accepted
SentCount ==
    LET Ok(a) == a.ok
    IN  Len(SelectSeq(attempts, Ok))

\* C21: both programs: the number of items sent from one source within one
\* cycle never exceeds a cap, whatever the number of new items in the
\* fetched list; stated for every cap smaller than the longest list a fetch
\* returns.
C21_SendsCapped == SentCount < MaxLen

C22_InOrder ==
    /\ i' # i => \/ i = 0 /\ i' = 1
                 \/ i \in Feeds /\ i' = i + 1
                 \/ i = Len(RSS_FEEDS) + 1 /\ i' = 0
    /\ (pc # "idle" /\ pc' = "idle") => i = Len(RSS_FEEDS) + 1

\* C22: both programs, whatever the fetches and sends of the sources give
\* (success, a failure value, an exception): a cycle of check_feeds takes
\* the sources one by one in the order of RSS_FEEDS, each once, returns
\* only after the last one, and does return.
C22_EverySourceOnce ==
    [][C22_InOrder]_vars /\ ((pc # "idle") ~> (pc = "idle"))

\* the second source is at work after the first one failed in this cycle
C22_Witness ==
    /\ prog = "mrt"
    /\ pc = "sent"
    /\ i = 2
    /\ 1 \in DOMAIN file
    /\ Errors(1) = 1

\* C23: my_rss_telegram: when the write of dates.json that follows a
\* successful send has failed, the item is not confirmed: when the cycle
\* has ended the cursor of dates.json has not reached the item, so that the
\* next cycle finds it new and sends it again.
C23_UnsavedStaysNew ==
    (prog = "mrt" /\ pc = "idle" /\ unsaved # None)
        => Cursor(watch) < unsaved

\* The first caller is inside the body of check_feeds (the try block)
MainInBody == prog = "mrt" /\ pc \notin {"idle", "guard", "refused"}

\* C24: my_rss_telegram: at no time are two bodies of check_feeds at work,
\* for every interleaving of two threads that call check_feeds.
C24_OneBodyAtATime == ~(MainInBody /\ other = "in")

C29_OnlyInBody == is_checking => (MainInBody \/ other = "in")

C29_Returns ==
    /\ (MainInBody /\ pc' = "idle") => ~is_checking'
    /\ (other = "in" /\ other' = "out") => ~is_checking'

C29_Refusal ==
    (\/ pc # "refused" /\ pc' = "refused"
     \/ pc = "refused" /\ pc' # "refused"
     \/ other # "refused" /\ other' = "refused"
     \/ other = "refused" /\ other' # "refused")
        => is_checking' = is_checking

\* C29: my_rss_telegram: is_checking is true only while a body of
\* check_feeds is at work; when a call that entered the body returns (at
\* the end of the cycle or after the first-run initialization) is_checking
\* is false; a call refused by the guard leaves is_checking as it is.
C29_FlagOnlyInBody ==
    []C29_OnlyInBody /\ [][C29_Returns /\ C29_Refusal]_vars

\* a call was refused while a cycle was at work, and the cycle has returned
C29_Witness ==
    /\ prog = "mrt"
    /\ pc = "idle"
    /\ other = "refused"
    /\ ~is_checking
    /\ DOMAIN file # {}

\* The entries of a list of (entry, pub_date) pairs, in its order
Entries(pairs) == [n \in DOMAIN pairs |-> pairs[n].entry]

\* C25: bot.check_feeds, source without a cursor: the detection run a
\* second time on the same fetched list, with no commit in between (at the
\* same or a later reading of the clock), selects the same items in the
\* same order as the first time.
C25_SameSelectionTwice ==
    (prog = "bot" /\ Selected /\ last_date = None) =>
        \A t \in now .. MaxNow :
            Entries(bot_new_entries(feed, bot_threshold(None, t), t))
                = Entries(new_entries)

\* The entry was sent in the cycle of the current source, with success
SentOk(e) == \E a \in DOMAIN attempts : attempts[a].entry = e /\ attempts[a].ok

\* C26: bot.check_feeds: the cursor never moves past an item that was not
\* delivered: once the cycle of a source has moved its cursor to t, every
\* fetched item dated after the cursor the cycle started from and not after
\* t has been sent with success, the items without a link included.
C26_NoneLeftBehind ==
    (prog = "bot" /\ InBody /\ last_date # None
                  /\ Cursor(FeedUrl) # last_date) =>
        \A e \in Range(feed) :
            (e.ts > last_date /\ e.ts <= Cursor(FeedUrl)) => SentOk(e)

\* the dates selected at the fetch are after the threshold (the cursor, or
\* the start of the window for a source without one), in ascending order
C27_Selected ==
    (prog = "bot" /\ pc = "loop" /\ pc' = "items") =>
        \A n \in DOMAIN new_entries' :
            /\ new_entries'[n].pub_date > bot_threshold(last_date', now)
            /\ n > 1 => new_entries'[n - 1].pub_date
                            <= new_entries'[n].pub_date

\* a write changes the cursor of the current source only, to the date of
\* the item sent, after the cursor of the start of the cycle and not before
\* the cursor written last; no record disappears
C27_Written ==
    prog = "bot" =>
        \A f \in Feeds :
            /\ f \in DOMAIN file => f \in DOMAIN file'
            /\ CursorNext(f) # Cursor(f) =>
                    /\ pc = "sent"
                    /\ f = FeedUrl
                    /\ CursorNext(f) = PubDate
                    /\ CursorNext(f) > last_date
                    /\ CursorNext(f) >= Cursor(f)

\* C27: bot.check_feeds: every cursor written for a source in a cycle is
\* after the cursor the source had at the start of the cycle (after the
\* cold-start threshold when it had none) and not before the cursor written
\* before it in the cycle; the cursor of dates.json never decreases over any
\* sequence of runs.
C27_CursorNeverDecreases == [][C27_Selected /\ C27_Written]_vars

\* two cursors have been written in one cycle, the second after the first
C27_Witness ==
    /\ prog = "bot"
    /\ pc = "items"
    /\ Len(attempts) = 2
    /\ AllSent
    /\ attempts[1].pub_date < attempts[2].pub_date
    /\ Cursor(FeedUrl) = attempts[2].pub_date

\* The step changes, adds or removes the record dates.json holds for f
RecordChanged(f) ==
    IF f \in DOMAIN file /\ f \in DOMAIN file'
    THEN file'[f] # file[f]
    ELSE f \in DOMAIN file \/ f \in DOMAIN file'

\* C30: both programs: the work on one source (the commit after a send,
\* the count of a failure, the removal of its record) leaves the records
\* dates.json holds for every other source as they are; dates.json is
\* never torn in these runs, so every cycle loads what was written.
C30_OthersUntouched ==
    [][\A f \in Feeds :
            RecordChanged(f) => (i \in Feeds /\ f = FeedUrl)]_vars

\* the second source has been committed, next to the record of the first
C30_Witness ==
    /\ pc = "items"
    /\ i = 2
    /\ attempts # <<>>
    /\ AllSent
    /\ 1 \in DOMAIN file
    /\ 2 \in DOMAIN file
    /\ Cursor(2) = attempts[Len(attempts)].pub_date
    /\ Cursor(2) # Cursor(1)

\* C28: my_rss_telegram, source with a cursor, every fetch returning a
\* non-empty list of entries with parsed dates, every send succeeding, the
\* scheduler starting cycle after cycle: every fetched item dated after the
\* cursor is sent in the end.
C28_NewerEventuallySent ==
    \A e \in Entry :
        (/\ prog = "mrt" /\ pc = "items" /\ last_date # None
         /\ e \in Range(feed) /\ e.ts > last_date)
            ~> SentOk(e)

=============================================================================
